---- MODULE Spec2Model ----
(***************************************************************************)
(* A model of scripts/generate-icon.py: the rasterizer draw_icon, the PNG  *)
(* encoder create_png and the driver main.                                 *)
(*                                                                         *)
(* Arithmetic.  The script computes in floating point.  Every geometric    *)
(* quantity of draw_icon is a multiple of size/1000 of a pixel (of         *)
(* size/100000 for the glyph), so lengths are held here as integers in     *)
(* thousandths of a pixel and compared exactly; a comparison against a     *)
(* square root is decided exactly by CmpSqrt.  Angles are integers in      *)
(* units of pi/PiUnits, so that every angle constant of the script is an   *)
(* exact integer, and math.atan2 is computed to about 1e-7 rad.            *)
(***************************************************************************)
EXTENDS Integers, Sequences, FiniteSets, TLC

VARIABLES
    pc,         \* position of the running function
    size,       \* draw_icon: its argument
    x, y,       \* draw_icon: the loop variables
    pixels,     \* draw_icon: the buffer; create_png: its pixels argument
    width,      \* create_png: its arguments
    height,
    row,        \* create_png: the loop variable y
    raw_data,   \* create_png: the scanline stream
    png,        \* create_png: the returned bytes
    k,          \* main: position in ICON_SIZES (1-based) of either loop
    files,      \* main: the icon directory, file name -> content
    renders,    \* main: the draw_icon calls so far (their sizes)
    resizes,    \* main: the sips calls so far
    writes,     \* main: the files opened for writing or handed to sips as --out
    images      \* main: contents["images"]

vars == << pc, size, x, y, pixels, width, height, row, raw_data, png,
           k, files, renders, resizes, writes, images >>

drawVars == << size, x, y, pixels >>
pngVars  == << width, height, row, raw_data, png >>
mainVars == << k, files, renders, resizes, writes, images >>

----------------------------------------------------------------------------
(* Bounds of the model *)

\* draw_icon is run for every size in 1 .. MaxSize
MaxSize == 30

\* create_png is run for every width and height in 1 .. MaxDim
MaxDim == 3

\* and for the buffers Pattern(85 * seed, step, n), seed in 0 .. MaxSeed
MaxSeed == 2

\* main starts in an icon directory holding at most MaxStale files already
MaxStale == 1

----------------------------------------------------------------------------
(* Integer helpers *)

Abs(v) == IF v < 0 THEN -v ELSE v

Min(a, b) == IF a <= b THEN a ELSE b

Max(a, b) == IF a >= b THEN a ELSE b

RECURSIVE Bisect(_, _, _)
Bisect(n, lo, hi) ==
    IF lo = hi THEN lo
    ELSE LET mid == (lo + hi + 1) \div 2
         IN  IF mid * mid <= n THEN Bisect(n, mid, hi) ELSE Bisect(n, lo, mid - 1)

\* math.sqrt, rounded down to an integer
Isqrt(n) == Bisect(n, 0, 46340)

\* The sign of a*sqrt(D) - T, for a > 0 and D >= 0, decided exactly and
\* without leaving 32 bits.
CmpSqrt(a, D, T) ==
    IF T < 0 THEN 1
    ELSE LET q == T \div a
             r == T % a
         IN  IF q >= 46340 THEN -1
             ELSE IF D < q * q THEN -1
             ELSE IF D = q * q THEN (IF r = 0 THEN 0 ELSE -1)
             ELSE IF D >= (q + 1) * (q + 1) THEN 1
             ELSE LET lhs == a * a * (D - q * q)
                      rhs == 2 * q * r * a + r * r
                  IN  IF lhs > rhs THEN 1 ELSE IF lhs < rhs THEN -1 ELSE 0

----------------------------------------------------------------------------
(* math.pi, math.atan2 *)

\* math.pi, in angle units
PiUnits == 300000000

TwoPi == 2 * PiUnits

\* atan(2^-i) in angle units, i = 0..25
AtanTable ==
    << 75000000, 44275085, 23393739, 11875027, 5960557, 2983184, 1491956,
       746024, 373018, 186509, 93255, 46627, 23314, 11657, 5828, 2914,
       1457, 729, 364, 182, 91, 46, 23, 11, 6, 3 >>

\* The angle of (vx, vy), vx > 0, by CORDIC vectoring
RECURSIVE Cordic(_, _, _, _)
Cordic(vx, vy, z, i) ==
    IF i > Len(AtanTable) \/ vy = 0 THEN z
    ELSE LET p == 2 ^ (i - 1)
         IN  IF vy > 0
             THEN Cordic(vx + (vy \div p), vy - (vx \div p), z + AtanTable[i], i + 1)
             ELSE Cordic(vx - (vy \div p), vy + (vx \div p), z - AtanTable[i], i + 1)

\* math.atan2(vy, vx), in (-PiUnits, PiUnits]
Atan2(vy, vx) ==
    IF vy = 0 THEN (IF vx >= 0 THEN 0 ELSE PiUnits)
    ELSE IF vx = 0 THEN (IF vy > 0 THEN PiUnits \div 2 ELSE -(PiUnits \div 2))
    ELSE IF vx > 0 THEN Cordic(vx * 8192, vy * 8192, 0, 1)
    ELSE LET a == Cordic(-vx * 8192, -vy * 8192, 0, 1)
         IN  IF vy > 0 THEN a + PiUnits ELSE a - PiUnits

\* the shortest arc between two angles: abs(a - b), folded at pi
AngleDiff(a, b) ==
    LET d == Abs(a - b) IN IF d > PiUnits THEN TwoPi - d ELSE d

----------------------------------------------------------------------------
(* draw_icon: geometry, in thousandths of a pixel *)

\* a pixel coordinate, in thousandths of a pixel
Coord(v) == 1000 * v

center(S) == 500 * S

radius(S) == 440 * S

corner_r(S) == 185 * S

knob_cx(S) == center(S)

knob_cy(S) == center(S) + 20 * S

knob_r(S) == 250 * S

knob_outer_r(S) == knob_r(S) + 25 * S

tick_ring_r(S) == knob_r(S) + 60 * S

tick_ring_outer(S) == knob_r(S) + 100 * S

bg_dark == << 28, 28, 30 >>

bg_mid == << 44, 44, 46 >>

accent == << 220, 60, 60 >>

accent_light == << 255, 100, 80 >>

knob_dark == << 58, 58, 62 >>

knob_light == << 90, 90, 96 >>

tick_color == << 160, 160, 166 >>

\* in_rounded_rect without its corner test: the bounding square
in_rounded_rect_square(px, py, cx, cy, hw, hh, cr) ==
    Abs(px - cx) <= hw /\ Abs(py - cy) <= hh

in_rounded_rect(px, py, cx, cy, hw, hh, cr) ==
    LET dx == Abs(px - cx) - (hw - cr)
        dy == Abs(py - cy) - (hh - cr)
    IN  IF dx <= 0 \/ dy <= 0
        THEN Abs(px - cx) <= hw /\ Abs(py - cy) <= hh
        ELSE dx * dx + dy * dy <= cr * cr

\* dist(x1, y1, x2, y2), squared
dist2(x1, y1, x2, y2) == (x1 - x2) * (x1 - x2) + (y1 - y2) * (y1 - y2)

\* int(v) for the rational v = num/den, den > 0: truncation towards zero
IntTrunc(num, den) ==
    IF num >= 0 THEN num \div den ELSE -((-num) \div den)

\* int(lerp(a, b, num/den))
lerp_ratio(a, b, num, den) == IntTrunc(a * den + (b - a) * num, den)

\* floor((N - c*sqrt(D))/w) for c > 0, w > 0
RECURSIVE FloorUp(_, _, _, _, _)
FloorUp(N, c, D, w, n) ==
    IF CmpSqrt(c, D, N - (n + 1) * w) <= 0 THEN FloorUp(N, c, D, w, n + 1) ELSE n

FloorMinusSqrt(N, c, D, w) == FloorUp(N, c, D, w, (N - c * (Isqrt(D) + 1)) \div w)

\* int(lerp(a, b, t)) for t = (u*sqrt(D) - v)/w and a > b; the value lies
\* between b and a, both positive, so int() rounds it down
lerp_sqrt(a, b, u, D, v, w) == FloorMinusSqrt(a * w + (a - b) * v, (a - b) * u, D, w)

\* floor((N + c*sqrt(D))/w) for c > 0, w > 0
RECURSIVE FloorUpPlus(_, _, _, _, _)
FloorUpPlus(N, c, D, w, n) ==
    IF CmpSqrt(c, D, (n + 1) * w - N) >= 0 THEN FloorUpPlus(N, c, D, w, n + 1) ELSE n

FloorPlusSqrt(N, c, D, w) == FloorUpPlus(N, c, D, w, (N + c * Isqrt(D)) \div w)

----------------------------------------------------------------------------
(* draw_icon: the colour rules of one pixel inside the clip *)

\* the squared distance d*d of pixel (px, py) from the knob centre
KnobDist2(S, px, py) == dist2(Coord(px), Coord(py), knob_cx(S), knob_cy(S))

\* angle = math.atan2(y - knob_cy, x - knob_cx)
KnobAngle(S, px, py) == Atan2(Coord(py) - knob_cy(S), Coord(px) - knob_cx(S))

\* Background gradient
Background(S, py) ==
    << lerp_ratio(bg_mid[1], bg_dark[1], py, S),
       lerp_ratio(bg_mid[2], bg_dark[2], py, S),
       lerp_ratio(bg_mid[3], bg_dark[3], py, S) >>

InRing(S, px, py) ==
    LET D == KnobDist2(S, px, py)
    IN  D <= knob_outer_r(S) * knob_outer_r(S) /\ D > knob_r(S) * knob_r(S)

InBody(S, px, py) == KnobDist2(S, px, py) <= knob_r(S) * knob_r(S)

\* ring_t = (d - knob_r) / (knob_outer_r - knob_r)
RingColour(S, px, py) ==
    LET D == KnobDist2(S, px, py)
        w == knob_outer_r(S) - knob_r(S)
    IN  << lerp_sqrt(knob_light[1], bg_dark[1], 1, D, knob_r(S), w),
           lerp_sqrt(knob_light[2], bg_dark[2], 1, D, knob_r(S), w),
           lerp_sqrt(knob_light[3], bg_dark[3], 1, D, knob_r(S), w) >>

\* the indicator line: angle_diff < angle_threshold and 0.3 knob_r < d < 0.9 knob_r
OnIndicator(S, px, py) ==
    LET D == KnobDist2(S, px, py)
        indicator_angle == -((PiUnits \div 100) * 33)
        angle_diff == AngleDiff(KnobAngle(S, px, py), indicator_angle)
        line_width == 25 * S
        angle_threshold == IF D > 0 THEN Atan2(line_width, Isqrt(D)) ELSE PiUnits
    IN  /\ angle_diff < angle_threshold
        /\ D > ((3 * knob_r(S)) \div 10) * ((3 * knob_r(S)) \div 10)
        /\ D < ((9 * knob_r(S)) \div 10) * ((9 * knob_r(S)) \div 10)

\* knob_t = d / knob_r, blended with factor knob_t * 0.7
BodyColour(S, px, py) ==
    IF OnIndicator(S, px, py) THEN accent
    ELSE LET D == KnobDist2(S, px, py)
             w == 10 * knob_r(S)
         IN  << lerp_sqrt(knob_light[1], knob_dark[1], 7, D, 0, w),
                lerp_sqrt(knob_light[2], knob_dark[2], 7, D, 0, w),
                lerp_sqrt(knob_light[3], knob_dark[3], 7, D, 0, w) >>

\* Volume knob (outer ring), else volume knob (body), else unchanged
KnobRule(S, px, py, rgb) ==
    IF InRing(S, px, py) THEN RingColour(S, px, py)
    ELSE IF InBody(S, px, py) THEN BodyColour(S, px, py)
    ELSE rgb

\* d >= tick_ring_r and d <= tick_ring_outer
InTickRing(S, px, py) ==
    LET D == KnobDist2(S, px, py)
    IN  D >= tick_ring_r(S) * tick_ring_r(S) /\ D <= tick_ring_outer(S) * tick_ring_outer(S)

\* norm_angle = angle % (2 * math.pi)
norm_angle(S, px, py) == KnobAngle(S, px, py) % TwoPi

dead_start == (PiUnits \div 100) * 38

dead_end == (PiUnits \div 100) * 62

\* the tick loop entered whatever the angle
in_dead_zone_never(S, px, py) == FALSE

in_dead_zone(S, px, py) ==
    dead_start <= norm_angle(S, px, py) /\ norm_angle(S, px, py) <= dead_end

num_ticks == 11

arc_start == dead_end

arc_range == TwoPi - (dead_end - dead_start)

tick_angle(i) == (arc_start + (arc_range \div (num_ticks - 1)) * i) % TwoPi

\* tick_width = math.atan2(size * 0.008, d) if d > 0 else 0
tick_width(S, px, py) ==
    LET D == KnobDist2(S, px, py)
    IN  IF D > 0 THEN Atan2(8 * S, Isqrt(D)) ELSE 0

\* tick_diff < tick_width for tick i
NearTick(S, px, py, i) ==
    AngleDiff(norm_angle(S, px, py), tick_angle(i)) < tick_width(S, px, py)

\* the ticks i = 0 .. num_ticks - 1 that cover the pixel
TicksAt(S, px, py) == { i \in 0 .. num_ticks - 1 : NearTick(S, px, py, i) }

TickOf(i) == IF i < 8 THEN accent ELSE tick_color

SetMax(T) == CHOOSE m \in T : \A n \in T : n <= m

\* the pixel is painted by the tick loop
TickPainted(S, px, py) ==
    /\ InTickRing(S, px, py)
    /\ ~ in_dead_zone(S, px, py)
    /\ TicksAt(S, px, py) # {}

\* Tick marks around the knob: the loop over i, a later tick painting over
\* an earlier one
TickRule(S, px, py, rgb) ==
    IF TickPainted(S, px, py) THEN TickOf(SetMax(TicksAt(S, px, py))) ELSE rgb

\* Small "F" letter at top, in hundred-thousandths of a pixel
GlyphRule(S, px, py, rgb) ==
    LET fx == 50000 * S
        fy == 50000 * S - 25000 * S - 12000 * S
        f_size == 4500 * S
        dx_f == Abs(100000 * px - fx)
        dy_f == 100000 * py - (fy - f_size)
    IN  IF 10 * dx_f < 8 * f_size /\ 0 <= dy_f /\ dy_f <= 2 * f_size
        THEN IF 10 * dx_f < 2 * f_size THEN accent_light
             ELSE IF 10 * dy_f < 3 * f_size THEN accent_light
             ELSE IF /\ 85 * f_size < 100 * dy_f
                     /\ 100 * dy_f < 115 * f_size
                     /\ 100 * dx_f < 55 * f_size
                  THEN accent_light
             ELSE rgb
        ELSE rgb

----------------------------------------------------------------------------
(* draw_icon: anti-aliased edge of the rounded rect *)

ex(S, px) == Abs(Coord(px) - center(S)) - (radius(S) - corner_r(S))

ey(S, py) == Abs(Coord(py) - center(S)) - (radius(S) - corner_r(S))

\* edge_dist of the two elif branches (a straight side), before and after
\* "if edge_dist < -1: edge_dist = -2"
SideDist(e, inset) ==
    LET edge_dist == e - inset
    IN  IF edge_dist < -1000 THEN -2000 ELSE edge_dist

\* alpha computed from edge_dist without the test "-1 < edge_dist <= 0"
SideAlphaUnguarded(edge_dist) == IntTrunc(255 * (1000 + edge_dist), 1000)

\* int(255 * (1.0 + edge_dist)) for edge_dist in thousandths
SideAlpha(edge_dist) ==
    IF edge_dist > -1000 /\ edge_dist <= 0
    THEN IntTrunc(255 * (1000 + edge_dist), 1000)
    ELSE 255

\* the first branch: edge_dist = sqrt(ex*ex + ey*ey) - corner_r
CornerAlpha(S, px, py) ==
    LET Q == ex(S, px) * ex(S, px) + ey(S, py) * ey(S, py)
    IN  IF CmpSqrt(1, Q, corner_r(S) - 1000) > 0 /\ CmpSqrt(1, Q, corner_r(S)) <= 0
        THEN FloorPlusSqrt(255 * (1000 - corner_r(S)), 255, Q, 1000)
        ELSE 255

alpha(S, px, py) ==
    IF ex(S, px) > 0 /\ ey(S, py) > 0 THEN CornerAlpha(S, px, py)
    ELSE IF ex(S, px) > 0
         THEN SideAlpha(SideDist(ex(S, px), radius(S) - Abs(Coord(py) - center(S))))
    ELSE IF ey(S, py) > 0
         THEN SideAlpha(SideDist(ey(S, py), radius(S) - Abs(Coord(px) - center(S))))
    ELSE SideAlpha(0)

Clamp(v) == Max(0, Min(255, v))

\* the four entries stored for a pixel inside the clip
InsidePixel(S, px, py) ==
    LET rgb == GlyphRule(S, px, py,
                   TickRule(S, px, py,
                       KnobRule(S, px, py, Background(S, py))))
    IN  << Clamp(rgb[1]), Clamp(rgb[2]), Clamp(rgb[3]), alpha(S, px, py) >>

InClip(S, px, py) ==
    in_rounded_rect(Coord(px), Coord(py), center(S), center(S),
                    radius(S), radius(S), corner_r(S))

----------------------------------------------------------------------------
(* Python sequences *)

\* seq[lo:hi], 0-based, clipped to the sequence
Slice(seq, lo, hi) == SubSeq(seq, Min(lo, Len(seq)) + 1, Min(hi, Len(seq)))

\* seq[lo:hi] = vals
SliceAssign(seq, lo, hi, vals) ==
    Slice(seq, 0, lo) \o vals \o Slice(seq, Max(lo, hi), Len(seq))

\* [v] * n
Repeat(v, n) == [j \in 1 .. n |-> v]

----------------------------------------------------------------------------
(* draw_icon as a process *)

DrawNext ==
    /\ x' = IF x + 1 < size THEN x + 1 ELSE 0
    /\ y' = IF x + 1 < size THEN y ELSE y + 1
    /\ pc' = IF x + 1 < size \/ y + 1 < size THEN "draw" ELSE "drawn"

\* not in_rounded_rect: pixels[idx:idx+4] = [0, 0, 0, 0]; continue
DrawOutside ==
    /\ pc = "draw"
    /\ ~ InClip(size, x, y)
    /\ pixels' = SliceAssign(pixels, (y * size + x) * 4, (y * size + x) * 4 + 4,
                             << 0, 0, 0, 0 >>)
    /\ DrawNext
    /\ UNCHANGED << size, pngVars, mainVars >>

\* the colour rules, then pixels[idx .. idx+3] = r, g, b, alpha
DrawInside ==
    /\ pc = "draw"
    /\ InClip(size, x, y)
    /\ LET idx == (y * size + x) * 4
           p == InsidePixel(size, x, y)
       IN  pixels' = [pixels EXCEPT ![idx + 1] = p[1], ![idx + 2] = p[2],
                                    ![idx + 3] = p[3], ![idx + 4] = p[4]]
    /\ DrawNext
    /\ UNCHANGED << size, pngVars, mainVars >>

----------------------------------------------------------------------------
(* struct.pack, zlib.crc32, zlib.compress *)

IsByte(v) == v \in 0 .. 255

\* struct.pack(">I", n)
PackU32(n) ==
    << (n \div 16777216) % 256, (n \div 65536) % 256, (n \div 256) % 256, n % 256 >>

\* the bitwise exclusive or of two n-bit integers
RECURSIVE Xor(_, _, _)
Xor(a, b, n) ==
    IF n = 0 THEN 0
    ELSE ((a + b) % 2) + 2 * Xor(a \div 2, b \div 2, n - 1)

\* The CRC register is the pair << high 16 bits, low 16 bits >>.
\* One shift, with the polynomial 0xEDB88320 = << 60856, 33568 >>
CrcShift(reg) ==
    LET hi == reg[1] \div 2
        lo == (reg[2] \div 2) + (reg[1] % 2) * 32768
    IN  IF reg[2] % 2 = 1
        THEN << Xor(hi, 60856, 16), Xor(lo, 33568, 16) >>
        ELSE << hi, lo >>

RECURSIVE CrcShifts(_, _)
CrcShifts(reg, n) == IF n = 0 THEN reg ELSE CrcShifts(CrcShift(reg), n - 1)

CrcByte(reg, v) == CrcShifts(<< reg[1], Xor(reg[2], v, 16) >>, 8)

RECURSIVE CrcFold(_, _, _)
CrcFold(data, j, reg) ==
    IF j > Len(data) THEN reg
    ELSE LET next == CrcByte(reg, data[j])
         IN  IF next[1] >= 0 THEN CrcFold(data, j + 1, next) ELSE next

\* struct.pack(">I", zlib.crc32(data) & 0xFFFFFFFF)
Crc32Bytes(data) ==
    LET reg == CrcFold(data, 1, << 65535, 65535 >>)
        hi == 65535 - reg[1]
        lo == 65535 - reg[2]
    IN  << hi \div 256, hi % 256, lo \div 256, lo % 256 >>

RECURSIVE AdlerFold(_, _, _, _)
AdlerFold(data, j, a, b) ==
    IF j > Len(data) THEN << a, b >>
    ELSE LET a2 == (a + data[j]) % 65521
             b2 == (b + a2) % 65521
         IN  IF a2 + b2 >= 0 THEN AdlerFold(data, j + 1, a2, b2) ELSE << a2, b2 >>

\* the Adler-32 checksum of data, big-endian
Adler32Bytes(data) ==
    LET ab == AdlerFold(data, 1, 1, 0)
    IN  << ab[2] \div 256, ab[2] % 256, ab[1] \div 256, ab[1] % 256 >>

\* zlib.compress(data, 9).  Which codes level 9 chooses is not modelled: the
\* stream is the stored-block member of the valid zlib streams for data
\* (header 78 DA, one final stored block, Adler-32), for Len(data) < 65536.
zlib_compress(data) ==
    << 120, 218, 1 >>
    \o << Len(data) % 256, Len(data) \div 256 >>
    \o << 255 - (Len(data) % 256), 255 - (Len(data) \div 256) >>
    \o data
    \o Adler32Bytes(data)

----------------------------------------------------------------------------
(* create_png *)

signature == << 137, 80, 78, 71, 13, 10, 26, 10 >>

TagIHDR == << 73, 72, 68, 82 >>

TagIDAT == << 73, 68, 65, 84 >>

TagIEND == << 73, 69, 78, 68 >>

\* a chunk whose CRC covers the data but not the type
make_chunk_data_crc(chunk_type, data) ==
    PackU32(Len(data)) \o chunk_type \o data \o Crc32Bytes(data)

make_chunk(chunk_type, data) ==
    LET chunk == chunk_type \o data
    IN  PackU32(Len(data)) \o chunk \o Crc32Bytes(chunk)

\* struct.pack(">IIBBBBB", width, height, 8, 6, 0, 0, 0)
ihdr_data(w, h) == PackU32(w) \o PackU32(h) \o << 8, 6, 0, 0, 0 >>

\* the inner loop over x of row yy: the slices pixels[idx:idx+4] in order
RECURSIVE RowPixels(_, _, _, _)
RowPixels(w, buf, yy, xx) ==
    IF xx >= w THEN << >>
    ELSE LET idx == (yy * w + xx) * 4
         IN  Slice(buf, idx, idx + 4) \o RowPixels(w, buf, yy, xx + 1)

\* a scanline without its filter byte
RowDataUnfiltered(w, buf, yy) == RowPixels(w, buf, yy, 0)

\* what one pass of the loop over y appends to raw_data
RowData(w, buf, yy) == << 0 >> \o RowPixels(w, buf, yy, 0)

\* bytes(...) raises ValueError for an entry outside range(256)
RowFaults(w, buf, yy) ==
    \E j \in 1 .. Len(RowPixels(w, buf, yy, 0)) : ~ IsByte(RowPixels(w, buf, yy, 0)[j])

\* everything after the loop: compress, the three chunks, the result
Assemble(w, h, raw) ==
    signature
    \o make_chunk(TagIHDR, ihdr_data(w, h))
    \o make_chunk(TagIDAT, zlib_compress(raw))
    \o make_chunk(TagIEND, << >>)

\* one pass of "for y in range(height)"
PngRow ==
    /\ pc = "png_rows"
    /\ row < height
    /\ IF RowFaults(width, pixels, row)
       THEN /\ pc' = "png_fault"
            /\ UNCHANGED << row, raw_data >>
       ELSE /\ raw_data' = raw_data \o RowData(width, pixels, row)
            /\ row' = row + 1
            /\ pc' = "png_rows"
    /\ UNCHANGED << width, height, png, drawVars, mainVars >>

\* lines 56-62
PngFinish ==
    /\ pc = "png_rows"
    /\ row >= height
    /\ png' = Assemble(width, height, raw_data)
    /\ pc' = "png_done"
    /\ UNCHANGED << width, height, row, raw_data, drawVars, mainVars >>

\* main's create_png(px, px, icon_pixels) on the buffer draw_icon returned
PngCall ==
    /\ pc = "drawn"
    /\ width' = size /\ height' = size
    /\ row' = 0 /\ raw_data' = << >>
    /\ pc' = "png_rows"
    /\ UNCHANGED << png, drawVars, mainVars >>

----------------------------------------------------------------------------
(* Rendering one variant: draw_icon, then create_png's loop over its buffer *)

InitDraw ==
    /\ size \in 1 .. MaxSize
    /\ pixels = Repeat(0, size * size * 4)
    /\ x = 0 /\ y = 0
    /\ pc = "draw"
    /\ width = 0 /\ height = 0 /\ row = 0 /\ raw_data = << >> /\ png = << >>
    /\ k = 0 /\ files = << >> /\ renders = << >> /\ resizes = << >>
    /\ writes = << >> /\ images = << >>

NextDraw == DrawOutside \/ DrawInside \/ PngCall \/ PngRow

SpecDraw == InitDraw /\ [][NextDraw]_vars

----------------------------------------------------------------------------
(* Encoding a buffer: create_png on its own *)

PatternSteps == { 1, 37, 255 }

\* a valid RGBA buffer of n entries
Pattern(seed, step, n) == [j \in 1 .. n |-> (seed + (j - 1) * step) % 256]

InitPng ==
    /\ width \in 1 .. MaxDim
    /\ height \in 1 .. MaxDim
    /\ \E seed \in 0 .. MaxSeed, step \in PatternSteps :
           pixels = Pattern((85 * seed) % 256, step, width * height * 4)
    /\ row = 0 /\ raw_data = << >> /\ png = << >>
    /\ pc = "png_rows"
    /\ size = 0 /\ x = 0 /\ y = 0
    /\ k = 0 /\ files = << >> /\ renders = << >> /\ resizes = << >>
    /\ writes = << >> /\ images = << >>

NextPng == PngRow \/ PngFinish

SpecPng == InitPng /\ [][NextPng]_vars

----------------------------------------------------------------------------
(* A PNG reader, for the claims about create_png's output *)

ReadU32(b, pos) ==
    b[pos] * 16777216 + b[pos + 1] * 65536 + b[pos + 2] * 256 + b[pos + 3]

BadChunk == [type |-> << >>, data |-> << >>, crc |-> << >>]

\* the chunks of b from position pos on: length, type, data, CRC each
RECURSIVE Chunks(_, _)
Chunks(b, pos) ==
    IF pos > Len(b) THEN << >>
    ELSE IF pos + 11 > Len(b) THEN << BadChunk >>
    ELSE LET n == ReadU32(b, pos)
         IN  IF pos + 11 + n > Len(b) THEN << BadChunk >>
             ELSE << [type |-> SubSeq(b, pos + 4, pos + 7),
                      data |-> SubSeq(b, pos + 8, pos + 7 + n),
                      crc  |-> SubSeq(b, pos + 8 + n, pos + 11 + n)] >>
                  \o Chunks(b, pos + 12 + n)

ChunkCrcOk(c) == c.crc = Crc32Bytes(c.type \o c.data)

\* zlib.decompress of a stream of one stored block
Inflate(z) ==
    IF Len(z) < 11 THEN [ok |-> FALSE, data |-> << >>]
    ELSE LET n == z[4] + 256 * z[5]
             data == SubSeq(z, 8, 7 + n)
         IN  IF /\ z[1] % 16 = 8
                /\ (256 * z[1] + z[2]) % 31 = 0
                /\ z[3] = 1
                /\ z[6] = 255 - z[4] /\ z[7] = 255 - z[5]
                /\ Len(z) = 11 + n
                /\ SubSeq(z, 8 + n, 11 + n) = Adler32Bytes(data)
             THEN [ok |-> TRUE, data |-> data]
             ELSE [ok |-> FALSE, data |-> << >>]

\* the scanlines of raw without their filter bytes
RECURSIVE Unfilter(_, _, _, _)
Unfilter(raw, w, h, yy) ==
    IF yy >= h THEN << >>
    ELSE SubSeq(raw, yy * (1 + 4 * w) + 2, (yy + 1) * (1 + 4 * w))
         \o Unfilter(raw, w, h, yy + 1)

NoFilterRows(raw, w, h) ==
    /\ Len(raw) = h * (1 + 4 * w)
    /\ \A yy \in 0 .. h - 1 : raw[yy * (1 + 4 * w) + 1] = 0

Undecodable == [ok |-> FALSE, width |-> 0, height |-> 0, pixels |-> << >>]

\* read the IHDR dimensions, decompress the IDAT payload, strip the filter bytes
Decode(b) ==
    IF Len(b) < 8 \/ SubSeq(b, 1, 8) # signature THEN Undecodable
    ELSE LET cs == Chunks(b, 9)
         IN  IF \/ Len(cs) # 3
                \/ cs[1].type # TagIHDR \/ cs[2].type # TagIDAT \/ cs[3].type # TagIEND
                \/ \E j \in 1 .. 3 : ~ ChunkCrcOk(cs[j])
                \/ Len(cs[1].data) # 13
                \/ SubSeq(cs[1].data, 9, 13) # << 8, 6, 0, 0, 0 >>
             THEN Undecodable
             ELSE LET w == ReadU32(cs[1].data, 1)
                      h == ReadU32(cs[1].data, 5)
                      raw == Inflate(cs[2].data)
                  IN  IF raw.ok /\ NoFilterRows(raw.data, w, h)
                      THEN [ok |-> TRUE, width |-> w, height |-> h,
                            pixels |-> Unfilter(raw.data, w, h, 0)]
                      ELSE Undecodable

\* C5: decoding create_png(W, H, P) yields exactly P, with width W and height H
C5_RoundTrip ==
    pc = "png_done" =>
        Decode(png) = [ok |-> TRUE, width |-> width, height |-> height, pixels |-> pixels]

C5_Witness ==
    /\ pc = "png_done"
    /\ width = 1 /\ height = 1
    /\ Decode(png).ok /\ Decode(png).pixels = pixels

\* C6: the output is the signature and exactly the chunks IHDR, IDAT, IEND,
\* each framed as length, type, data, CRC-32 over type+data; the uncompressed
\* IDAT stream has H*(1+4W) bytes: per row a 0 byte, then the row's RGBA bytes
C6_Structure ==
    pc = "png_done" =>
        LET cs == Chunks(png, 9)
            raw == Inflate(cs[2].data)
            stride == 1 + 4 * width
        IN  /\ SubSeq(png, 1, 8) = signature
            /\ Len(cs) = 3
            /\ << cs[1].type, cs[2].type, cs[3].type >> = << TagIHDR, TagIDAT, TagIEND >>
            /\ \A j \in 1 .. 3 : ChunkCrcOk(cs[j])
            /\ raw.ok
            /\ Len(raw.data) = height * stride
            /\ \A yy \in 0 .. height - 1 :
                   /\ raw.data[yy * stride + 1] = 0
                   /\ \A j \in 1 .. 4 * width :
                          raw.data[yy * stride + 1 + j] = pixels[yy * 4 * width + j]

C6_Witness ==
    /\ pc = "png_done"
    /\ width = 2 /\ height = 2
    /\ Len(Chunks(png, 9)) = 3
    /\ Len(Inflate(Chunks(png, 9)[2].data).data) = 18

----------------------------------------------------------------------------
(* The rounded-rect mask, for the claims about draw_icon's alpha channel *)

\* the stored alpha of pixel (px, py)
AlphaAt(px, py) == pixels[(py * size + px) * 4 + 4]

MaskQx(S, px) == Abs(Coord(px) - center(S)) - (radius(S) - corner_r(S))

MaskQy(S, py) == Abs(Coord(py) - center(S)) - (radius(S) - corner_r(S))

InCornerRegion(S, px, py) == MaskQx(S, px) > 0 /\ MaskQy(S, py) > 0

MaskQ(S, px, py) == MaskQx(S, px) * MaskQx(S, px) + MaskQy(S, py) * MaskQy(S, py)

\* outside a corner region, the signed distance to the nearest straight side:
\* |x - center| - 0.44 size or |y - center| - 0.44 size, whichever is nearer
StraightDist(S, px, py) ==
    Max(Abs(Coord(px) - center(S)), Abs(Coord(py) - center(S))) - radius(S)

\* the signed distance to the mask boundary is positive
OutsideMask(S, px, py) ==
    IF InCornerRegion(S, px, py)
    THEN CmpSqrt(1, MaskQ(S, px, py), corner_r(S)) > 0
    ELSE StraightDist(S, px, py) > 0

\* the signed distance to the mask boundary is below -1 pixel
DeepInsideMask(S, px, py) ==
    IF InCornerRegion(S, px, py)
    THEN CmpSqrt(1, MaskQ(S, px, py), corner_r(S) - 1000) < 0
    ELSE StraightDist(S, px, py) < -1000

\* C4: draw_icon(S) returns S*S*4 entries; a pixel outside the mask has
\* alpha 0, the corner pixel (0,0) among them, and a pixel more than one
\* pixel inside the mask has alpha 255
C4_MaskAlpha ==
    pc = "drawn" =>
        /\ Len(pixels) = size * size * 4
        /\ AlphaAt(0, 0) = 0
        /\ \A px \in 0 .. size - 1, py \in 0 .. size - 1 :
               /\ OutsideMask(size, px, py) => AlphaAt(px, py) = 0
               /\ DeepInsideMask(size, px, py) => AlphaAt(px, py) = 255

C4_Witness ==
    /\ pc = "drawn"
    /\ size = 16
    /\ Len(pixels) = 1024
    /\ OutsideMask(16, 0, 0) /\ AlphaAt(0, 0) = 0
    /\ OutsideMask(16, 1, 1) /\ AlphaAt(1, 1) = 0
    /\ DeepInsideMask(16, 8, 8) /\ AlphaAt(8, 8) = 255

\* C7: a pixel the tick rule paints has its normalized angle outside
\* (0.38 pi, 0.62 pi), although the first and the last tick lie on the two
\* ends of the dead zone
C7_DeadZone ==
    /\ tick_angle(0) = (PiUnits \div 100) * 62
    /\ tick_angle(num_ticks - 1) = (PiUnits \div 100) * 38
    /\ (pc = "draw" /\ InClip(size, x, y) /\ InTickRing(size, x, y)
          /\ TickRule(size, x, y, << -1, -1, -1 >>) \in { accent, tick_color })
       => ~ ( /\ (PiUnits \div 100) * 38 < norm_angle(size, x, y)
              /\ norm_angle(size, x, y) < (PiUnits \div 100) * 62 )

\* a pixel painted by the first tick, which lies on the end of the dead zone
C7_Witness ==
    /\ pc = "draw"
    /\ InClip(size, x, y)
    /\ TickRule(size, x, y, << -1, -1, -1 >>) = accent
    /\ TicksAt(size, x, y) = { 0 }

\* 255*(1+distance) truncated where the signed distance to the mask boundary
\* (corner region: to the corner circle; straight-edge region: to the nearest
\* straight side) is in (-1, 0], and 255 elsewhere
ClaimedAlpha(S, px, py) ==
    IF InCornerRegion(S, px, py)
    THEN IF CmpSqrt(1, MaskQ(S, px, py), corner_r(S) - 1000) > 0
         THEN FloorPlusSqrt(255 * (1000 - corner_r(S)), 255, MaskQ(S, px, py), 1000)
         ELSE 255
    ELSE IF StraightDist(S, px, py) > -1000
         THEN IntTrunc(255 * (1000 + StraightDist(S, px, py)), 1000)
         ELSE 255

\* C8 as stated: for every pixel inside the clip, the stored alpha is
\* 255*(1+distance) truncated where the signed distance to the rounded-rect
\* boundary is in (-1, 0], and 255 everywhere else inside the clip
C8_EdgeAlphaAsClaimed ==
    pc = "drawn" =>
        \A px \in 0 .. size - 1, py \in 0 .. size - 1 :
            InClip(size, px, py) => AlphaAt(px, py) = ClaimedAlpha(size, px, py)

\* C9: every entry of the returned buffer is an integer in 0..255, the alpha
\* entries included, and create_png's conversion of the entries never faults
C9_Bytes ==
    /\ pc = "drawn" => \A j \in 1 .. Len(pixels) : IsByte(pixels[j])
    /\ pc # "png_fault"

\* the loop of create_png has consumed a buffer holding an anti-aliased alpha
C9_Witness ==
    /\ pc = "png_rows"
    /\ size = 16 /\ height = 16 /\ row = 16
    /\ Len(raw_data) = 16 * 65
    /\ \E px \in 0 .. 15, py \in 0 .. 15 : AlphaAt(px, py) \notin { 0, 255 }

----------------------------------------------------------------------------
(* main *)

\* Required sizes: (width, scale, filename)
ICON_SIZES ==
    << << 16, 1, "icon_16x16.png" >>,
       << 16, 2, "icon_16x16@2x.png" >>,
       << 32, 1, "icon_32x32.png" >>,
       << 32, 2, "icon_32x32@2x.png" >>,
       << 128, 1, "icon_128x128.png" >>,
       << 128, 2, "icon_128x128@2x.png" >>,
       << 256, 1, "icon_256x256.png" >>,
       << 256, 2, "icon_256x256@2x.png" >>,
       << 512, 1, "icon_512x512.png" >>,
       << 512, 2, "icon_512x512@2x.png" >> >>

MASTER_SIZE == 1024

\* the paths below ICON_DIR
master_path == "icon_512x512@2x.png"

contents_path == "Contents.json"

base_size(v) == ICON_SIZES[v][1]

scale(v) == ICON_SIZES[v][2]

filename(v) == ICON_SIZES[v][3]

\* px = base_size * scale
px_of(v) == base_size(v) * scale(v)

out_path(v) == filename(v)

Paths == { filename(v) : v \in 1 .. Len(ICON_SIZES) } \cup { contents_path }

\* What a path of the directory holds
Absent == [kind |-> "absent", px |-> 0, data |-> << >>]

\* a file that was there before the run
Old == [kind |-> "old", px |-> 0, data |-> << >>]

\* open(path, 'wb'): created or truncated, nothing written yet
Opened == [kind |-> "open", px |-> 0, data |-> << >>]

\* the PNG create_png(n, n, draw_icon(n)), written and closed
Png(n) == [kind |-> "png", px |-> n, data |-> << >>]

\* the output of sips -z n n
Resized(n) == [kind |-> "resized", px |-> n, data |-> << >>]

\* json.dump of contents
Json(imgs) == [kind |-> "json", px |-> 0, data |-> imgs]

Digit(d) == << "0", "1", "2", "3", "4", "5", "6", "7", "8", "9" >>[d + 1]

\* str(n) for n >= 0, as the sequence of its characters
RECURSIVE Str(_)
Str(n) == IF n < 10 THEN << Digit(n) >> ELSE Str(n \div 10) \o << Digit(n % 10) >>

\* an entry whose size string is built from the pixel size
ManifestEntryPx(v) ==
    [filename |-> filename(v),
     idiom    |-> "mac",
     scale    |-> Str(scale(v)) \o << "x" >>,
     size     |-> Str(px_of(v)) \o << "x" >> \o Str(px_of(v))]

\* the entry appended to contents["images"] for variant v
ManifestEntry(v) ==
    [filename |-> filename(v),
     idiom    |-> "mac",
     scale    |-> Str(scale(v)) \o << "x" >>,
     size     |-> Str(base_size(v)) \o << "x" >> \o Str(base_size(v))]

\* the loop without its "already generated" test
IsMasterNever(n) == FALSE

\* if px == MASTER_SIZE
IsMaster(n) == n = MASTER_SIZE

\* the threshold off by one: px > 512
RenderDirectStrict(n) == n > 512

\* if px >= 512
RenderDirect(n) == n >= 512

\* subprocess.run(..., check=True): CalledProcessError, uncaught
AfterFailedResizeChecked == "aborted"

\* where main goes on after subprocess.run returned a non-zero exit status:
\* run() is called without check=True, so to the print after the branch
AfterFailedResize == "written"

InitMain ==
    /\ pc = "main"
    /\ k = 0
    /\ \E stale \in SUBSET Paths :
           /\ Cardinality(stale) <= MaxStale
           /\ files = [f \in Paths |-> IF f \in stale THEN Old ELSE Absent]
    /\ renders = << >> /\ resizes = << >> /\ writes = << >> /\ images = << >>
    /\ size = 0 /\ x = 0 /\ y = 0 /\ pixels = << >>
    /\ width = 0 /\ height = 0 /\ row = 0 /\ raw_data = << >> /\ png = << >>

\* os.makedirs(ICON_DIR, exist_ok=True): the directory, and what it holds, stay
MakeDirs ==
    /\ pc = "main"
    /\ pc' = "master"
    /\ UNCHANGED << drawVars, pngVars, mainVars >>

\* master_pixels = draw_icon(MASTER_SIZE); png_data = create_png(...)
RenderMaster ==
    /\ pc = "master"
    /\ renders' = Append(renders, [size |-> MASTER_SIZE, at |-> 0])
    /\ pc' = "open_master"
    /\ UNCHANGED << drawVars, pngVars, k, files, resizes, writes, images >>

\* with open(master_path, 'wb') as f
OpenMaster ==
    /\ pc = "open_master"
    /\ files' = [files EXCEPT ![master_path] = Opened]
    /\ writes' = Append(writes, master_path)
    /\ pc' = "write_master"
    /\ UNCHANGED << drawVars, pngVars, k, renders, resizes, images >>

\* f.write(png_data), and the file is closed
WriteMaster ==
    /\ pc = "write_master"
    /\ files' = [files EXCEPT ![master_path] = Png(MASTER_SIZE)]
    /\ k' = 1
    /\ pc' = "loop"
    /\ UNCHANGED << drawVars, pngVars, renders, resizes, writes, images >>

InLoop == pc = "loop" /\ k <= Len(ICON_SIZES)

\* if px == MASTER_SIZE: continue
LoopSkip ==
    /\ InLoop
    /\ IsMaster(px_of(k))
    /\ k' = k + 1
    /\ UNCHANGED << pc, drawVars, pngVars, files, renders, resizes, writes, images >>

\* if px >= 512: icon_pixels = draw_icon(px); png_data = create_png(...)
LoopRender ==
    /\ InLoop
    /\ ~ IsMaster(px_of(k))
    /\ RenderDirect(px_of(k))
    /\ renders' = Append(renders, [size |-> px_of(k), at |-> k])
    /\ pc' = "open_out"
    /\ UNCHANGED << drawVars, pngVars, k, files, resizes, writes, images >>

\* with open(out_path, 'wb') as f
OpenOut ==
    /\ pc = "open_out"
    /\ files' = [files EXCEPT ![out_path(k)] = Opened]
    /\ writes' = Append(writes, out_path(k))
    /\ pc' = "write_out"
    /\ UNCHANGED << drawVars, pngVars, k, renders, resizes, images >>

\* f.write(png_data), and the file is closed
WriteOut ==
    /\ pc = "write_out"
    /\ files' = [files EXCEPT ![out_path(k)] = Png(px_of(k))]
    /\ pc' = "written"
    /\ UNCHANGED << drawVars, pngVars, k, renders, resizes, writes, images >>

\* the call subprocess.run(["sips", "-z", px, px, master_path, "--out", out_path])
SipsCall(outcome) ==
    [at |-> k, h |-> px_of(k), w |-> px_of(k), src |-> master_path,
     read |-> files[master_path], out |-> out_path(k), outcome |-> outcome]

InResize == InLoop /\ ~ IsMaster(px_of(k)) /\ ~ RenderDirect(px_of(k))

\* sips runs and writes the resized image
ResizeOk ==
    /\ InResize
    /\ resizes' = Append(resizes, SipsCall("ok"))
    /\ files' = [files EXCEPT ![out_path(k)] = Resized(px_of(k))]
    /\ writes' = Append(writes, out_path(k))
    /\ pc' = "written"
    /\ UNCHANGED << drawVars, pngVars, k, renders, images >>

\* sips runs, writes nothing and exits with a non-zero status, which
\* subprocess.run returns in a CompletedProcess nobody reads
ResizeFail ==
    /\ InResize
    /\ resizes' = Append(resizes, SipsCall("exit"))
    /\ pc' = AfterFailedResize
    /\ UNCHANGED << drawVars, pngVars, k, files, renders, writes, images >>

\* sips cannot be started: subprocess.run raises OSError, which main does
\* not catch
ResizeRaise ==
    /\ InResize
    /\ resizes' = Append(resizes, SipsCall("oserror"))
    /\ pc' = "aborted"
    /\ UNCHANGED << drawVars, pngVars, k, files, renders, writes, images >>

\* print(f"  Written: {out_path}"), and the next variant
PrintWritten ==
    /\ pc = "written"
    /\ k' = k + 1
    /\ pc' = "loop"
    /\ UNCHANGED << drawVars, pngVars, files, renders, resizes, writes, images >>

\* the loop is over: contents = {"images": [], ...}
LoopExit ==
    /\ pc = "loop"
    /\ k > Len(ICON_SIZES)
    /\ images' = << >>
    /\ k' = 1
    /\ pc' = "contents"
    /\ UNCHANGED << drawVars, pngVars, files, renders, resizes, writes >>

\* contents["images"].append(entry)
ManifestAppend ==
    /\ pc = "contents"
    /\ k <= Len(ICON_SIZES)
    /\ images' = Append(images, ManifestEntry(k))
    /\ k' = k + 1
    /\ UNCHANGED << pc, drawVars, pngVars, files, renders, resizes, writes >>

\* with open(contents_path, 'w') as f
OpenContents ==
    /\ pc = "contents"
    /\ k > Len(ICON_SIZES)
    /\ files' = [files EXCEPT ![contents_path] = Opened]
    /\ writes' = Append(writes, contents_path)
    /\ pc' = "dump"
    /\ UNCHANGED << drawVars, pngVars, k, renders, resizes, images >>

\* json.dump(contents, f, indent=2), and the file is closed
DumpContents ==
    /\ pc = "dump"
    /\ files' = [files EXCEPT ![contents_path] = Json(images)]
    /\ pc' = "updated"
    /\ UNCHANGED << drawVars, pngVars, k, renders, resizes, writes, images >>

\* print("\nDone! App icon generated.")
PrintDone ==
    /\ pc = "updated"
    /\ pc' = "done"
    /\ UNCHANGED << drawVars, pngVars, mainVars >>

NextMain ==
    \/ MakeDirs \/ RenderMaster \/ OpenMaster \/ WriteMaster
    \/ LoopSkip \/ LoopRender \/ OpenOut \/ WriteOut
    \/ ResizeOk \/ ResizeFail \/ ResizeRaise
    \/ PrintWritten \/ LoopExit
    \/ ManifestAppend \/ OpenContents \/ DumpContents \/ PrintDone

SpecMain == InitMain /\ [][NextMain]_vars

----------------------------------------------------------------------------
(* Claims about main *)

Variants == 1 .. Len(ICON_SIZES)

\* the draw_icon calls, and the sips calls, made for variant v
RendersAt(v) == { j \in 1 .. Len(renders) : renders[j].at = v }

ResizesAt(v) == { j \in 1 .. Len(resizes) : resizes[j].at = v }

AfterLoop == pc \in { "contents", "dump", "updated", "done" }

\* the generation loop is through with variant v
Finished(v) ==
    \/ AfterLoop
    \/ pc \in { "loop", "open_out", "write_out", "written", "aborted" } /\ v < k
    \/ pc = "written" /\ v = k

\* C1: the rasterizer runs at 1024 once, for the master; a variant of px =
\* 1024 causes no render and no resize, one of 512 <= px < 1024 exactly one
\* render of its own at px and no resize, one of px < 512 exactly one resize
\* from the master to px x px and no render
C1_Paths ==
    /\ pc \notin { "main", "master" } =>
           /\ renders[1] = [size |-> 1024, at |-> 0]
           /\ \A j \in 2 .. Len(renders) : renders[j].size # 1024
    /\ \A v \in Variants :
           Finished(v) =>
               IF px_of(v) = 1024
               THEN RendersAt(v) = {} /\ ResizesAt(v) = {}
               ELSE IF px_of(v) >= 512
               THEN /\ Cardinality(RendersAt(v)) = 1
                    /\ \A j \in RendersAt(v) : renders[j].size = px_of(v)
                    /\ ResizesAt(v) = {}
               ELSE /\ Cardinality(ResizesAt(v)) = 1
                    /\ \A j \in ResizesAt(v) :
                           /\ resizes[j].src = master_path
                           /\ resizes[j].out = filename(v)
                           /\ resizes[j].w = px_of(v) /\ resizes[j].h = px_of(v)
                    /\ RendersAt(v) = {}

C1_Witness ==
    /\ pc = "done"
    /\ Len(renders) = 3
    /\ renders[2] = [size |-> 512, at |-> 8]
    /\ renders[3] = [size |-> 512, at |-> 9]
    /\ Len(resizes) = 7
    /\ resizes[4].w = 64 /\ resizes[4].h = 64 /\ resizes[4].out = "icon_32x32@2x.png"

DigitValue(c) == CHOOSE d \in 0 .. 9 : << "0", "1", "2", "3", "4", "5", "6", "7", "8", "9" >>[d + 1] = c

IsDigit(c) == c \in { "0", "1", "2", "3", "4", "5", "6", "7", "8", "9" }

RECURSIVE NumeralValue(_)
NumeralValue(chars) ==
    IF chars = << >> THEN 0
    ELSE 10 * NumeralValue(SubSeq(chars, 1, Len(chars) - 1)) + DigitValue(chars[Len(chars)])

\* chars is the decimal numeral of n
IsNumeral(chars, n) ==
    /\ Len(chars) >= 1
    /\ \A j \in 1 .. Len(chars) : IsDigit(chars[j])
    /\ Len(chars) > 1 => chars[1] # "0"
    /\ NumeralValue(chars) = n

\* chars is "{a}x{b}"
IsPair(chars, a, b) ==
    \E j \in 1 .. Len(chars) :
        /\ chars[j] = "x"
        /\ IsNumeral(SubSeq(chars, 1, j - 1), a)
        /\ IsNumeral(SubSeq(chars, j + 1, Len(chars)), b)

\* C2: when main completes, the manifest written holds one entry per
\* variant, in the order of the generation loop, none twice, each with the
\* variant's file name, "{base}x{base}", "{scale}x" and the idiom "mac"
C2_Manifest ==
    pc = "done" =>
        /\ files[contents_path].kind = "json"
        /\ LET m == files[contents_path].data
           IN  /\ Len(m) = 10
               /\ Len(m) = Len(ICON_SIZES)
               /\ \A v \in Variants :
                      /\ m[v].filename = filename(v)
                      /\ m[v].idiom = "mac"
                      /\ IsPair(m[v].size, base_size(v), base_size(v))
                      /\ Len(m[v].scale) >= 2
                      /\ m[v].scale[Len(m[v].scale)] = "x"
                      /\ IsNumeral(SubSeq(m[v].scale, 1, Len(m[v].scale) - 1), scale(v))
               /\ \A a \in Variants, b \in Variants : a # b => m[a].filename # m[b].filename

C2_Witness ==
    /\ pc = "done"
    /\ Len(files[contents_path].data) = 10
    /\ files[contents_path].data[10].size = << "5", "1", "2", "x", "5", "1", "2" >>
    /\ files[contents_path].data[10].scale = << "2", "x" >>

\* the manifest is written, with its 10 entries
ManifestWritten ==
    files[contents_path].kind = "json" /\ Len(files[contents_path].data) = 10

C10_Master ==
    /\ resizes # << >> => files[master_path] = Png(1024)
    /\ \A j \in 1 .. Len(resizes) :
           /\ resizes[j].src = master_path
           /\ resizes[j].src = "icon_512x512@2x.png"
           /\ resizes[j].read = Png(1024)
    /\ writes # << >> => writes[1] = master_path
    /\ \A j \in 2 .. Len(writes) : writes[j] # master_path

C10_Witness ==
    /\ pc = "done"
    /\ Len(resizes) = 7
    /\ \A j \in 1 .. 7 : resizes[j].read = Png(1024) /\ resizes[j].outcome = "ok"
    /\ files[master_path] = Png(1024)

====
